---------------------------- MODULE Spec2Model ----------------------------
(***************************************************************************)
(* Monte Carlo simulator of a pharmaceutical supply chain.                 *)
(*                                                                         *)
(* Three source files are modelled, selected by `variant`:                 *)
(*   "mc"          src/distribution_mc.py          (basic, mode A)         *)
(*   "regression"  src/distribution_regression.py  (unified-missing, B)    *)
(*   "batch"       src/distribution_batch.py       (aggregate-only)        *)
(*                                                                         *)
(* One behaviour is one call of the file's aggregator (main_simulation or  *)
(* batch_simulation) with arguments num_sims and N; the journey functions  *)
(* simulate_imported_drugs / simulate_local_drugs / simulate_imported_batch*)
(* run inside it, one action per random draw or stage.                     *)
(*                                                                         *)
(* Random draws are nondeterministic choices from small sample sets.       *)
(* Probabilities and the [0,1) uniform primitive share one integer scale:  *)
(* a Bernoulli check `np.random.random() < p` hits iff u < p.  Transit     *)
(* times are whole days.  A fraction a / b is the record [num, den].       *)
(***************************************************************************)
EXTENDS Integers, Sequences, FiniteSets, TLC

\* ------------------------------------------------------------------ bounds
\* Largest N and num_sims the caller passes (the smallest is -1: invalid).
MaxN == 2
MaxSims == 2

\* --------------------------------------------------------- program constants
\* `transit_time < 7`
OnTimeLimit == 7
\* `max(1, num_stops)`
MinStops == 1

\* ------------------------------------------------------------ sample sets
Variants == {"mc", "regression", "batch"}
NValues == -1 .. MaxN
SimValues == -1 .. MaxSims

\* Values of a drawn stage probability, and of np.random.random(), on one scale.
ProbLevels == {1, 2}
UniformPoints == {0, 1, 2}
\* Samples of Normal(4.74, 0.785) (base leg) and Normal(0.5, 0.6) (one stop), in days.
BaseTimes == {6, 7}
ExtraTimes == {0, 7}
\* Samples of Poisson(3), Poisson(1) and of the batch variant's Poisson counts.
PoissonDraws == {0, 1, 2}

ImportedProbNames ==
    {"p_counterfeit", "p_seized_export_counterfeit", "p_seized_export_legit",
     "p_seized_import_counterfeit", "p_seized_import_legit",
     "p_warehouse_theft", "p_last_mile_theft"}
LocalProbNames ==
    {"p_counterfeit_local", "p_warehouse_theft_local", "p_last_mile_theft_local"}

\* The joint draws of a run's stage probabilities kept in the model: all of
\* them at the low level, or all at the high level.
ProbDraws(names) == {[q \in names |-> l] : l \in ProbLevels}

NoProbs == [q \in {} |-> 0]
NoRes == [q \in {} |-> 0]

\* ------------------------------------------------------------ pure helpers
\* np.random.random() < p
Hit(u, p) == u < p

\* Mutant of Clamp: the Poisson draw is used as drawn.
ClampMissing(d) == d

\* max(1, num_stops)
Clamp(d) == IF d < MinStops THEN MinStops ELSE d

\* transit_time < 7
OnTime(t) == t < OnTimeLimit

\* a / b for b # 0
Frac(a, b) == [num |-> a, den |-> b]
Zero == [num |-> 0, den |-> 1]

\* Mutant of Remaining: the difference is not floored at 0.
RemainingUnfloored(a, b) == a - b

\* max(0, a - b)
Remaining(a, b) == IF a - b < 0 THEN 0 ELSE a - b

\* int(r * (k / n)) for r, k >= 0 and n > 0: truncation of a non-negative
\* quotient (exact for the counts of the model; a float product can round)
IntOfProduct(r, k, n) == (r * k) \div n

VARIABLES
    variant,                    \* which source file runs
    N, num_sims,                \* the aggregator's arguments
    pc,                         \* position in the code
    sim,                        \* iterations of the aggregator's loop begun
    path,                       \* journey running: "imported", "local", "none"
    err,                        \* exception raised ("none" while running)
    probs,                      \* the run's stage probabilities
    i,                          \* shipments of the run begun (for _ in range(N))
    is_counterfeit, transit_time, num_stops, stop, stolen,   \* shipment locals
    status,                     \* the shipment's terminal status
    stages,                     \* stages the shipment has passed
    legit_total, counterfeit_total,
    final_legit_on_time, final_counterfeit_on_time,
    final_missing, arrived_shipments, total_transit_time,
    late_arrivals, lost_shipments,   \* history: shipments of the run that
                                \* arrived late / were seized or stolen
    batch,                      \* locals of simulate_imported_batch
    imported_res, local_res,    \* what the journey functions returned
    calls,                      \* journey invocations so far, per path
    appended,                   \* what this iteration appended to each list
    list_len,                   \* length of the aggregator's lists
    summary,                    \* what the aggregator returned
    modeA, modeB                \* one journey of the basic / unified-missing
                                \* variant, run side by side on one draw
                                \* sequence (specification Lockstep only)

shipment == <<is_counterfeit, transit_time, num_stops, stop, stolen, status, stages>>
counters == <<legit_total, counterfeit_total, final_legit_on_time,
              final_counterfeit_on_time, final_missing, arrived_shipments,
              total_transit_time, late_arrivals, lost_shipments>>
args == <<variant, N, num_sims>>
aggregator == <<sim, imported_res, local_res, calls, appended, list_len, summary>>
pair == <<modeA, modeB>>
vars == <<args, pc, path, err, probs, i, shipment, counters, batch, aggregator,
          pair>>

\* Shipment locals before a shipment's first stage.  Python keeps the previous
\* iteration's values, but each is assigned before it is read again
\* (transit_time, num_stops, stolen), so the model forgets them.
NoShipment ==
    /\ is_counterfeit' = FALSE
    /\ transit_time' = 0
    /\ num_stops' = 0
    /\ stop' = 0
    /\ stolen' = FALSE
    /\ status' = "none"
    /\ stages' = 0

ZeroCounters ==
    /\ legit_total' = 0
    /\ counterfeit_total' = 0
    /\ final_legit_on_time' = 0
    /\ final_counterfeit_on_time' = 0
    /\ final_missing' = 0
    /\ arrived_shipments' = 0
    /\ total_transit_time' = 0
    /\ late_arrivals' = 0
    /\ lost_shipments' = 0

NoBatch == [q \in {} |-> 0]
NoRun == [pc |-> "none"]

\* The aggregator has been called and has done nothing yet.
AtEntry ==
    /\ pc = "loop"
    /\ sim = 0
    /\ path = "none"
    /\ err = "none"
    /\ probs = NoProbs
    /\ i = 0
    /\ is_counterfeit = FALSE
    /\ transit_time = 0
    /\ num_stops = 0
    /\ stop = 0
    /\ stolen = FALSE
    /\ status = "none"
    /\ stages = 0
    /\ legit_total = 0
    /\ counterfeit_total = 0
    /\ final_legit_on_time = 0
    /\ final_counterfeit_on_time = 0
    /\ final_missing = 0
    /\ arrived_shipments = 0
    /\ total_transit_time = 0
    /\ late_arrivals = 0
    /\ lost_shipments = 0
    /\ batch = NoBatch
    /\ imported_res = NoRes
    /\ local_res = NoRes
    /\ calls = [imported |-> 0, local |-> 0, batch |-> 0]
    /\ appended = NoRes
    /\ list_len = 0
    /\ summary = "none"

Init ==
    /\ variant \in Variants
    /\ N \in NValues
    /\ num_sims \in SimValues
    /\ AtEntry
    /\ modeA = NoRun
    /\ modeB = NoRun

PerShipment == variant \in {"mc", "regression"}
Unified == variant = "regression"

\* Mutant of MoreSims: one iteration too many.
MoreSimsOffByOne == sim <= num_sims

\* for _ in range(num_sims): another iteration follows
MoreSims == sim < num_sims

\* Mutant of MoreShipments: one shipment too many.
MoreShipmentsOffByOne == i <= N

\* for _ in range(N): another shipment follows
MoreShipments == i < N

\* for _stop in range(num_stops): another stop follows this one
MoreStops == stop + 1 < num_stops

\* ------------------------------------------------- journey: per-shipment loop

\* simulate_imported_drugs, up to the loop: the run's probabilities are drawn
\* and the counters start at 0.  Begins an iteration of main_simulation's loop.
CallImported ==
    /\ PerShipment
    /\ pc = "loop"
    /\ MoreSims
    /\ sim' = sim + 1
    /\ \E v \in ProbDraws(ImportedProbNames) : probs' = v
    /\ path' = "imported"
    /\ calls' = [calls EXCEPT !.imported = @ + 1]
    /\ i' = 0
    /\ ZeroCounters
    /\ NoShipment
    \* the previous iteration's results and fractions are dead: forgotten
    /\ imported_res' = NoRes
    /\ local_res' = NoRes
    /\ appended' = NoRes
    /\ pc' = "shipment"
    /\ UNCHANGED <<pair, args, err, batch, list_len, summary>>

\* The keys of imported_res that main_simulation reads.
LiveKeys ==
    IF Unified
    THEN ImportedProbNames \cup {"avg_transit_time", "final_missing"}
    ELSE {"final_legit_total", "final_counterfeit_total",
          "final_legit_on_time", "final_counterfeit_on_time"}

\* simulate_local_drugs, up to the loop.
CallLocal ==
    /\ PerShipment
    /\ pc = "call_local"
    /\ \E v \in ProbDraws(LocalProbNames) : probs' = v
    /\ path' = "local"
    /\ calls' = [calls EXCEPT !.local = @ + 1]
    /\ i' = 0
    /\ ZeroCounters
    /\ NoShipment
    \* main_simulation reads only these keys of imported_res from here on
    /\ imported_res' = [q \in LiveKeys |-> imported_res[q]]
    /\ pc' = "shipment"
    /\ UNCHANGED <<pair, args, err, batch, sim, local_res, appended, list_len, summary>>

\* Mutant of Lost: the `final_missing += 1` is forgotten.
LostUncounted(s) ==
    /\ status' = s
    /\ lost_shipments' = lost_shipments + 1
    /\ UNCHANGED late_arrivals
    /\ final_missing' = final_missing
    /\ pc' = "shipment"

\* Mutant of Lost: the `continue` is forgotten, the shipment goes on to the
\* next stage.
LostNoContinue(s) ==
    /\ status' = s
    /\ lost_shipments' = lost_shipments + 1
    /\ UNCHANGED late_arrivals
    /\ final_missing' = IF Unified THEN final_missing + 1 ELSE final_missing
    /\ pc' = CASE pc = "export" -> "base"
              [] pc = "import" -> "stops"
              [] pc = "stop" -> "last_mile"
              [] OTHER -> "arrival"

\* The shipment ends in terminal status s that is not on-time: in the
\* unified-missing variant it is counted in final_missing; `continue`.
Lost(s) ==
    /\ status' = s
    /\ lost_shipments' = lost_shipments + 1
    /\ UNCHANGED late_arrivals
    /\ final_missing' = IF Unified THEN final_missing + 1 ELSE final_missing
    /\ pc' = "shipment"

PCounterfeit == IF path = "imported" THEN probs["p_counterfeit"]
                ELSE probs["p_counterfeit_local"]
PWarehouseTheft == IF path = "imported" THEN probs["p_warehouse_theft"]
                   ELSE probs["p_warehouse_theft_local"]
PLastMileTheft == IF path = "imported" THEN probs["p_last_mile_theft"]
                  ELSE probs["p_last_mile_theft_local"]
PSeizedExport == IF is_counterfeit THEN probs["p_seized_export_counterfeit"]
                 ELSE probs["p_seized_export_legit"]
PSeizedImport == IF is_counterfeit THEN probs["p_seized_import_counterfeit"]
                 ELSE probs["p_seized_import_legit"]

\* A) counterfeit or legit: the class total is incremented.  The previous
\* shipment's locals are dead here and are forgotten.
Classify ==
    /\ pc = "shipment"
    /\ MoreShipments
    /\ i' = i + 1
    /\ \E u \in UniformPoints :
         /\ is_counterfeit' = Hit(u, PCounterfeit)
         /\ counterfeit_total' = IF Hit(u, PCounterfeit) THEN counterfeit_total + 1
                                 ELSE counterfeit_total
         /\ legit_total' = IF Hit(u, PCounterfeit) THEN legit_total
                           ELSE legit_total + 1
    /\ transit_time' = 0
    /\ num_stops' = 0
    /\ stop' = 0
    /\ stolen' = FALSE
    /\ status' = "in_transit"
    /\ stages' = 1
    /\ pc' = IF path = "imported" THEN "export" ELSE "stops"
    /\ UNCHANGED <<pair, args, path, err, probs, batch, aggregator,
                   final_legit_on_time, final_counterfeit_on_time, final_missing,
                   arrived_shipments, total_transit_time, late_arrivals,
                   lost_shipments>>

\* B) export customs seizure (imported only)
ExportSeizure ==
    /\ pc = "export"
    /\ stages' = stages + 1
    /\ \E u \in UniformPoints :
         IF Hit(u, PSeizedExport)
         THEN Lost("seized_export")
         ELSE /\ pc' = "base"
              /\ UNCHANGED <<status, final_missing, late_arrivals,
                             lost_shipments>>
    /\ UNCHANGED <<pair, args, path, err, probs, i, batch, aggregator,
                   is_counterfeit, transit_time, num_stops, stop, stolen,
                   legit_total, counterfeit_total, final_legit_on_time,
                   final_counterfeit_on_time, arrived_shipments,
                   total_transit_time>>

\* C) base transport time (imported only)
BaseTransit ==
    /\ pc = "base"
    /\ stages' = stages + 1
    /\ \E t \in BaseTimes : transit_time' = t
    /\ pc' = "import"
    /\ UNCHANGED <<pair, args, path, err, probs, i, batch, aggregator, counters,
                   is_counterfeit, num_stops, stop, stolen, status>>

\* D) import customs seizure (imported only)
ImportSeizure ==
    /\ pc = "import"
    /\ stages' = stages + 1
    /\ \E u \in UniformPoints :
         IF Hit(u, PSeizedImport)
         THEN Lost("seized_import")
         ELSE /\ pc' = "stops"
              /\ UNCHANGED <<status, final_missing, late_arrivals,
                             lost_shipments>>
    /\ UNCHANGED <<pair, args, path, err, probs, i, batch, aggregator,
                   is_counterfeit, transit_time, num_stops, stop, stolen,
                   legit_total, counterfeit_total, final_legit_on_time,
                   final_counterfeit_on_time, arrived_shipments,
                   total_transit_time>>

\* E) the stop count is drawn: np.random.poisson(lambda_stops).  The local
\* path starts its transit time at 0.0 here.
DrawStops ==
    /\ pc = "stops"
    /\ stages' = stages + 1
    /\ \E d \in PoissonDraws : num_stops' = d
    /\ transit_time' = IF path = "local" THEN 0 ELSE transit_time
    /\ pc' = "clamp"
    /\ UNCHANGED <<pair, args, path, err, probs, i, batch, aggregator, counters,
                   is_counterfeit, stop, stolen, status>>

\* num_stops = max(1, num_stops); stolen = False; the stop loop is entered
\* (range(num_stops) is empty when num_stops = 0).
ClampStops ==
    /\ pc = "clamp"
    /\ num_stops' = Clamp(num_stops)
    /\ stop' = 0
    /\ stolen' = FALSE
    /\ pc' = IF Clamp(num_stops) > 0 THEN "stop" ELSE "last_mile"
    /\ UNCHANGED <<pair, args, path, err, probs, i, batch, aggregator, counters,
                   is_counterfeit, transit_time, status, stages>>

\* Mutant of StolenInWarehouse: counted in the loop and again after it.
StolenCountedTwice ==
    /\ stolen' = TRUE
    /\ status' = "stolen_warehouse"
    /\ lost_shipments' = lost_shipments + 1
    /\ UNCHANGED late_arrivals
    /\ final_missing' = IF Unified THEN final_missing + 2 ELSE final_missing
    /\ pc' = "shipment"

\* Mutant of StolenInWarehouse: no `break` and no `if stolen: continue`.
StolenKeepsGoing ==
    /\ stolen' = TRUE
    /\ status' = "stolen_warehouse"
    /\ lost_shipments' = lost_shipments + 1
    /\ UNCHANGED late_arrivals
    /\ final_missing' = IF Unified THEN final_missing + 1 ELSE final_missing
    /\ pc' = IF stop + 1 < num_stops THEN "stop" ELSE "last_mile"

\* Mutant of StolenInWarehouse: the `break` is forgotten, the remaining stops
\* run before `if stolen: continue`.
StolenNoBreak ==
    /\ stolen' = TRUE
    /\ status' = "stolen_warehouse"
    /\ lost_shipments' = lost_shipments + 1
    /\ UNCHANGED late_arrivals
    /\ final_missing' = IF Unified THEN final_missing + 1 ELSE final_missing
    /\ pc' = IF MoreStops THEN "stop" ELSE "shipment"

\* The warehouse-theft check hit: `stolen = True; break`, then
\* `if stolen: continue`.
StolenInWarehouse ==
    /\ stolen' = TRUE
    /\ Lost("stolen_warehouse")

\* One iteration of the stop loop: the stop's transit leg, then the
\* warehouse-theft check; on a hit `break`, then `if stolen: continue`.
Stop ==
    /\ pc = "stop"
    /\ stop < num_stops
    /\ stages' = stages + 1
    /\ stop' = stop + 1
    /\ \E t \in ExtraTimes : transit_time' = transit_time + t
    /\ \E u \in UniformPoints :
         IF Hit(u, PWarehouseTheft)
         THEN StolenInWarehouse
         ELSE /\ pc' = IF MoreStops THEN "stop" ELSE "last_mile"
              /\ UNCHANGED <<stolen, status, final_missing, late_arrivals,
                             lost_shipments>>
    /\ UNCHANGED <<pair, args, path, err, probs, i, batch, aggregator,
                   is_counterfeit, num_stops,
                   legit_total, counterfeit_total, final_legit_on_time,
                   final_counterfeit_on_time, arrived_shipments,
                   total_transit_time>>

\* F) last-mile theft
LastMile ==
    /\ pc = "last_mile"
    /\ stages' = stages + 1
    /\ \E u \in UniformPoints :
         IF Hit(u, PLastMileTheft)
         THEN Lost("stolen_last_mile")
         ELSE /\ pc' = "arrival"
              /\ UNCHANGED <<status, final_missing, late_arrivals,
                             lost_shipments>>
    /\ UNCHANGED <<pair, args, path, err, probs, i, batch, aggregator,
                   is_counterfeit, transit_time, num_stops, stop, stolen,
                   legit_total, counterfeit_total, final_legit_on_time,
                   final_counterfeit_on_time, arrived_shipments,
                   total_transit_time>>

\* Mutant of CountOnTime: the two classes' counters are swapped.
CountOnTimeSwapped ==
    /\ final_counterfeit_on_time' =
         IF is_counterfeit THEN final_counterfeit_on_time
         ELSE final_counterfeit_on_time + 1
    /\ final_legit_on_time' =
         IF is_counterfeit THEN final_legit_on_time + 1
         ELSE final_legit_on_time

\* The on-time counter of the shipment's class is incremented.
CountOnTime ==
    /\ final_counterfeit_on_time' =
         IF is_counterfeit THEN final_counterfeit_on_time + 1
         ELSE final_counterfeit_on_time
    /\ final_legit_on_time' =
         IF is_counterfeit THEN final_legit_on_time
         ELSE final_legit_on_time + 1

\* G) the shipment arrives: on time if transit_time < 7, else late (counted
\* in final_missing in the unified-missing variant, dropped in the basic one).
Arrival ==
    /\ pc = "arrival"
    /\ stages' = stages + 1
    /\ arrived_shipments' = IF Unified THEN arrived_shipments + 1
                            ELSE arrived_shipments
    /\ total_transit_time' = IF Unified THEN total_transit_time + transit_time
                             ELSE total_transit_time
    /\ IF OnTime(transit_time)
       THEN /\ status' = "on_time"
            /\ CountOnTime
            /\ UNCHANGED <<final_missing, late_arrivals>>
       ELSE /\ status' = "late_arrival"
            /\ late_arrivals' = late_arrivals + 1
            /\ final_missing' = IF Unified THEN final_missing + 1
                                ELSE final_missing
            /\ UNCHANGED <<final_legit_on_time, final_counterfeit_on_time>>
    /\ pc' = "shipment"
    /\ UNCHANGED <<pair, args, path, err, probs, i, batch, aggregator,
                   is_counterfeit, transit_time, num_stops, stop, stolen,
                   legit_total, counterfeit_total, lost_shipments>>

\* Mutant of AvgTransitTime: the division is not guarded.
AvgTransitTimeUnguarded(total, arrived) == Frac(total, arrived)

\* `transit_time / arrived` guarded: 0.0 when nothing arrived
AvgTransitTime(total, arrived) ==
    IF arrived > 0 THEN Frac(total, arrived) ELSE Zero

\* Mutant of Results: the probabilities reported are the lowest of their
\* distributions, not the ones drawn.
ResultsOtherProbs ==
    LET base == [final_legit_on_time |-> final_legit_on_time,
                 final_counterfeit_on_time |-> final_counterfeit_on_time,
                 final_legit_total |-> legit_total,
                 final_counterfeit_total |-> counterfeit_total,
                 total_surviving |-> final_legit_on_time + final_counterfeit_on_time]
        unified == [final_missing |-> final_missing,
                    avg_transit_time |->
                        AvgTransitTime(total_transit_time, arrived_shipments)]
        reported == [q \in DOMAIN probs |-> 1]
    IN  IF Unified THEN base @@ unified @@ reported
        ELSE IF path = "local" THEN base @@ reported
        ELSE base

\* The dict the journey function returns.
Results ==
    LET base == [final_legit_on_time |-> final_legit_on_time,
                 final_counterfeit_on_time |-> final_counterfeit_on_time,
                 final_legit_total |-> legit_total,
                 final_counterfeit_total |-> counterfeit_total,
                 total_surviving |-> final_legit_on_time + final_counterfeit_on_time]
        unified == [final_missing |-> final_missing,
                    avg_transit_time |->
                        AvgTransitTime(total_transit_time, arrived_shipments)]
    IN  IF Unified THEN base @@ unified @@ probs
        ELSE IF path = "local" THEN base @@ probs
        ELSE base

\* The loop over range(N) is exhausted: the journey function returns its
\* results and its locals are gone.
Return ==
    /\ pc = "shipment"
    /\ ~MoreShipments
    /\ IF path = "imported"
       THEN /\ imported_res' = Results
            /\ pc' = "call_local"
            /\ UNCHANGED local_res
       ELSE /\ local_res' = Results
            /\ pc' = "aggregate"
            /\ UNCHANGED imported_res
    /\ path' = "none"
    /\ probs' = NoProbs
    /\ i' = 0
    /\ ZeroCounters
    /\ NoShipment
    /\ UNCHANGED <<pair, args, err, batch, sim, calls, appended, list_len, summary>>

\* ------------------------------------------------------------- aggregators

\* Mutant of GuardedFraction: the division is not guarded.
UnguardedFraction(on_time, total) == Frac(on_time, total)

\* on_time / total if total > 0 else 0
GuardedFraction(on_time, total) ==
    IF total > 0 THEN Frac(on_time, total) ELSE Zero

\* main_simulation (basic): the rest of one iteration.  The class fractions
\* divide by N unguarded; the on-time fractions are guarded.
FractionsMC ==
    [imported_legit_fraction |-> Frac(imported_res.final_legit_total, N),
     imported_counterfeit_fraction |-> Frac(imported_res.final_counterfeit_total, N),
     imported_legit_arrivals |->
         GuardedFraction(imported_res.final_legit_on_time,
                         imported_res.final_legit_total),
     imported_counterfeit_arrivals |->
         GuardedFraction(imported_res.final_counterfeit_on_time,
                         imported_res.final_counterfeit_total),
     local_legit_fraction |-> Frac(local_res.final_legit_total, N),
     local_counterfeit_fraction |-> Frac(local_res.final_counterfeit_total, N),
     local_legit_arrivals |->
         GuardedFraction(local_res.final_legit_on_time,
                         local_res.final_legit_total),
     local_counterfeit_arrivals |->
         GuardedFraction(local_res.final_counterfeit_on_time,
                         local_res.final_counterfeit_total)]

\* main_simulation (regression): the two rows of one iteration.
RowsRegression ==
    [imported_data |->
         [q \in ImportedProbNames |-> imported_res[q]] @@
         [avg_transit_time |-> imported_res.avg_transit_time,
          missing_frac |-> Frac(imported_res.final_missing, N)],
     local_data |->
         [q \in LocalProbNames |-> local_res[q]] @@
         [avg_transit_time_local |-> local_res.avg_transit_time,
          missing_frac |-> Frac(local_res.final_missing, N)]]

\* The rest of one iteration of main_simulation: `x / N` raises
\* ZeroDivisionError when N = 0; otherwise one element is appended per list.
Aggregate ==
    /\ pc = "aggregate"
    /\ IF N = 0
       THEN /\ err' = "ZeroDivisionError"
            /\ pc' = "raised"
            /\ UNCHANGED <<appended, list_len>>
       ELSE /\ appended' = IF Unified THEN RowsRegression ELSE FractionsMC
            /\ list_len' = list_len + 1
            /\ pc' = "loop"
            /\ UNCHANGED err
    /\ UNCHANGED <<pair, args, path, probs, i, shipment, counters, batch, sim,
                   imported_res, local_res, calls, summary>>

\* The aggregator's loop over range(num_sims) is exhausted: np.mean of each
\* list (nan, with a warning, for an empty list), or the two DataFrames.
MainReturn ==
    /\ pc = "loop"
    /\ ~MoreSims
    /\ summary' = IF Unified THEN "dataframes"
                  ELSE IF list_len = 0 THEN "nan" ELSE "means"
    /\ pc' = "done"
    /\ UNCHANGED <<pair, args, path, err, probs, i, shipment, counters, batch, sim,
                   imported_res, local_res, calls, appended, list_len>>

\* ------------------------------------------- journey: aggregate-only variant

\* np.random.poisson(count * p) with p > 0: 0 when count is 0
PoissonOf(count) == IF count = 0 THEN {0} ELSE PoissonDraws

\* 1. counterfeit vs. legit: np.random.binomial(N, p) raises ValueError for
\* N < 0.  Begins an iteration of batch_simulation's loop.
BatchClasses ==
    /\ variant = "batch"
    /\ pc = "loop"
    /\ MoreSims
    /\ sim' = sim + 1
    /\ calls' = [calls EXCEPT !.batch = @ + 1]
    /\ \E p \in ProbLevels : probs' = [p_counterfeit |-> p]
    /\ imported_res' = NoRes
    /\ appended' = NoRes
    /\ IF N < 0
       THEN /\ err' = "ValueError"
            /\ pc' = "raised"
            /\ UNCHANGED batch
       ELSE /\ \E c \in 0 .. N :
                 batch' = [counterfeit_import |-> c, legit_import |-> N - c]
            /\ pc' = "b_export"
            /\ UNCHANGED err
    /\ UNCHANGED <<pair, args, path, i, shipment, counters, local_res, list_len,
                   summary>>

\* 2. export customs seizure
BatchExport ==
    /\ pc = "b_export"
    /\ \E v \in [{"p_seized_export_counterfeit", "p_seized_export_legit"}
                    -> ProbLevels] : probs' = v
    /\ \E sc \in PoissonOf(batch.counterfeit_import),
          sl \in PoissonOf(batch.legit_import) :
         batch' = [remaining_counterfeit_export |->
                       Remaining(batch.counterfeit_import, sc),
                   remaining_legit_export |->
                       Remaining(batch.legit_import, sl)] @@ batch
    /\ pc' = "b_import"
    /\ UNCHANGED <<pair, args, path, err, i, shipment, counters, aggregator>>

\* 3. import customs seizure
BatchImport ==
    /\ pc = "b_import"
    /\ \E v \in [{"p_seized_import_counterfeit", "p_seized_import_legit"}
                    -> ProbLevels] : probs' = v
    /\ \E sc \in PoissonOf(batch.remaining_counterfeit_export),
          sl \in PoissonOf(batch.remaining_legit_export) :
         batch' = [remaining_counterfeit_import |->
                       Remaining(batch.remaining_counterfeit_export, sc),
                   remaining_legit_import |->
                       Remaining(batch.remaining_legit_export, sl)] @@ batch
    /\ pc' = "b_transit"
    /\ UNCHANGED <<pair, args, path, err, i, shipment, counters, aggregator>>

\* 4. transit time: k of the N normal draws are < 7; frac_on_time = k / N is
\* nan for N = 0 and int(nan) raises ValueError.
BatchTransit ==
    /\ pc = "b_transit"
    /\ IF N = 0
       THEN /\ err' = "ValueError"
            /\ pc' = "raised"
            /\ UNCHANGED batch
       ELSE /\ \E k \in 0 .. N :
                 batch' = [legit_on_time_import |->
                               IntOfProduct(batch.remaining_legit_import, k, N),
                           counterf_on_time_import |->
                               IntOfProduct(batch.remaining_counterfeit_import, k, N)]
                          @@ batch
            /\ pc' = "b_warehouse"
            /\ UNCHANGED err
    /\ UNCHANGED <<pair, args, path, probs, i, shipment, counters, aggregator>>

\* 5. warehouse theft
BatchWarehouse ==
    /\ pc = "b_warehouse"
    /\ \E p \in ProbLevels : probs' = [p_warehouse_theft |-> p]
    /\ \E tl \in PoissonOf(batch.legit_on_time_import),
          tc \in PoissonOf(batch.counterf_on_time_import) :
         batch' = [remaining_legit_warehouse |->
                       Remaining(batch.legit_on_time_import, tl),
                   remaining_counterfeit_warehouse |->
                       Remaining(batch.counterf_on_time_import, tc)] @@ batch
    /\ pc' = "b_last_mile"
    /\ UNCHANGED <<pair, args, path, err, i, shipment, counters, aggregator>>

\* 6. last-mile theft
BatchLastMile ==
    /\ pc = "b_last_mile"
    /\ \E p \in ProbLevels : probs' = [p_last_mile_theft |-> p]
    /\ \E tl \in PoissonOf(batch.remaining_legit_warehouse),
          tc \in PoissonOf(batch.remaining_counterfeit_warehouse) :
         batch' = [final_legit |->
                       Remaining(batch.remaining_legit_warehouse, tl),
                   final_counterfeit |->
                       Remaining(batch.remaining_counterfeit_warehouse, tc)]
                  @@ batch
    /\ pc' = "b_return"
    /\ UNCHANGED <<pair, args, path, err, i, shipment, counters, aggregator>>

\* return final_legit, final_counterfeit, legit_import, counterfeit_import
BatchReturn ==
    /\ pc = "b_return"
    /\ imported_res' = [final_legit |-> batch.final_legit,
                        final_counterfeit |-> batch.final_counterfeit,
                        legit_import |-> batch.legit_import,
                        counterfeit_import |-> batch.counterfeit_import]
    /\ batch' = NoBatch
    /\ probs' = NoProbs
    /\ pc' = "b_aggregate"
    /\ UNCHANGED <<pair, args, path, err, i, shipment, counters, sim, local_res,
                   calls, appended, list_len, summary>>

\* batch_simulation: the rest of one iteration.
FractionsBatch ==
    [imported_legit_arrivals |->
         GuardedFraction(imported_res.final_legit, imported_res.legit_import),
     imported_counterfeit_arrivals |->
         GuardedFraction(imported_res.final_counterfeit,
                         imported_res.counterfeit_import),
     imported_legit_total |-> imported_res.legit_import,
     imported_counterfeit_total |-> imported_res.counterfeit_import]

BatchAggregate ==
    /\ pc = "b_aggregate"
    /\ appended' = FractionsBatch
    /\ list_len' = list_len + 1
    /\ pc' = "loop"
    /\ UNCHANGED <<pair, args, path, err, probs, i, shipment, counters, batch, sim,
                   imported_res, local_res, calls, summary>>

\* ------------------------------------------------------------ specification
Next ==
    \/ CallImported
    \/ CallLocal
    \/ Classify
    \/ ExportSeizure
    \/ BaseTransit
    \/ ImportSeizure
    \/ DrawStops
    \/ ClampStops
    \/ Stop
    \/ LastMile
    \/ Arrival
    \/ Return
    \/ Aggregate
    \/ MainReturn
    \/ BatchClasses
    \/ BatchExport
    \/ BatchImport
    \/ BatchTransit
    \/ BatchWarehouse
    \/ BatchLastMile
    \/ BatchReturn
    \/ BatchAggregate

Spec == Init /\ [][Next]_vars

TypeOK ==
    /\ pc \in {"loop", "call_local", "shipment", "export", "base", "import",
               "stops", "clamp", "stop", "last_mile", "arrival", "aggregate", "raised",
               "done", "b_export", "b_import", "b_transit", "b_warehouse",
               "b_last_mile", "b_return", "b_aggregate"}
    /\ err \in {"none", "ZeroDivisionError", "ValueError"}
    /\ status \in {"none", "in_transit", "seized_export", "seized_import",
                   "stolen_warehouse", "stolen_last_mile", "late_arrival",
                   "on_time"}

\* ------------------------------------- the two modes on one draw sequence
\* One call of a journey function of distribution_mc.py (mode "A") and one of
\* the same function of distribution_regression.py (mode "B"), each a record
\* of the function's locals, advanced by the same draw at every step.

JourneyPaths == {"imported", "local"}
ProbNamesOf(p) == IF p = "imported" THEN ImportedProbNames ELSE LocalProbNames

\* The locals after the probabilities are drawn and the counters are zeroed.
Entered(mode, p, v) ==
    LET common == [pc |-> "shipment", path |-> p, probs |-> v, i |-> 0,
                   is_counterfeit |-> FALSE, transit_time |-> 0,
                   num_stops |-> 0, stop |-> 0, stolen |-> FALSE,
                   status |-> "none",
                   legit_total |-> 0, counterfeit_total |-> 0,
                   final_legit_on_time |-> 0, final_counterfeit_on_time |-> 0,
                   results |-> NoRes]
        extra == [final_missing |-> 0, arrived_shipments |-> 0,
                  total_transit_time |-> 0]
    IN  IF mode = "B" THEN common @@ extra ELSE common

\* The probability a stage of the journey checks against.
StageProb(s, stage) ==
    CASE stage = "counterfeit" ->
             IF s.path = "imported" THEN s.probs["p_counterfeit"]
             ELSE s.probs["p_counterfeit_local"]
      [] stage = "export" ->
             IF s.is_counterfeit THEN s.probs["p_seized_export_counterfeit"]
             ELSE s.probs["p_seized_export_legit"]
      [] stage = "import" ->
             IF s.is_counterfeit THEN s.probs["p_seized_import_counterfeit"]
             ELSE s.probs["p_seized_import_legit"]
      [] stage = "warehouse" ->
             IF s.path = "imported" THEN s.probs["p_warehouse_theft"]
             ELSE s.probs["p_warehouse_theft_local"]
      [] OTHER ->
             IF s.path = "imported" THEN s.probs["p_last_mile_theft"]
             ELSE s.probs["p_last_mile_theft_local"]

\* Mutant of CountMissing: mode B takes a missing shipment out of its class
\* total.
CountMissingOutOfTotal(mode, s) ==
    IF mode = "B"
    THEN [s EXCEPT !.final_missing = @ + 1,
                   !.counterfeit_total = IF s.is_counterfeit THEN @ - 1 ELSE @,
                   !.legit_total = IF s.is_counterfeit THEN @ ELSE @ - 1]
    ELSE s

\* `final_missing += 1`: a statement of mode B only
CountMissing(mode, s) ==
    IF mode = "B" THEN [s EXCEPT !.final_missing = @ + 1] ELSE s

\* `arrived_shipments += 1; total_transit_time += transit_time`: mode B only
CountArrived(mode, s) ==
    IF mode = "B"
    THEN [s EXCEPT !.arrived_shipments = @ + 1,
                   !.total_transit_time = @ + s.transit_time]
    ELSE s

\* A seizure or theft hit: (`final_missing += 1`,) `continue`.
Terminate(mode, s, st) ==
    CountMissing(mode, [s EXCEPT !.status = st, !.pc = "shipment"])

\* The dict the function returns.
ResultsOf(mode, s) ==
    LET base == [final_legit_on_time |-> s.final_legit_on_time,
                 final_counterfeit_on_time |-> s.final_counterfeit_on_time,
                 final_legit_total |-> s.legit_total,
                 final_counterfeit_total |-> s.counterfeit_total,
                 total_surviving |->
                     s.final_legit_on_time + s.final_counterfeit_on_time]
    IN  IF mode = "B"
        THEN base @@ [final_missing |-> s.final_missing,
                      avg_transit_time |->
                          AvgTransitTime(s.total_transit_time,
                                         s.arrived_shipments)] @@ s.probs
        ELSE IF s.path = "local" THEN base @@ s.probs
        ELSE base

\* The draws the statement at s.pc can consume: np.random.random(), a normal
\* or Poisson sample, or none (the arrival check, the exhausted loop).
DrawsFor(s) ==
    CASE s.pc = "shipment" -> IF s.i < N THEN UniformPoints ELSE {0}
      [] s.pc \in {"export", "import", "theft", "last_mile"} -> UniformPoints
      [] s.pc = "base" -> BaseTimes
      [] s.pc = "stops" -> PoissonDraws
      [] s.pc = "stop" -> ExtraTimes
      [] OTHER -> {0}

\* One statement of the journey function in the given mode, consuming draw d.
JourneyStep(mode, s, d) ==
    CASE s.pc = "shipment" ->
             IF s.i < N
             THEN LET c == Hit(d, StageProb(s, "counterfeit"))
                  IN  [s EXCEPT !.i = @ + 1,
                                !.is_counterfeit = c,
                                !.counterfeit_total = IF c THEN @ + 1 ELSE @,
                                !.legit_total = IF c THEN @ ELSE @ + 1,
                                !.transit_time = 0,
                                !.num_stops = 0,
                                !.stop = 0,
                                !.stolen = FALSE,
                                !.status = "in_transit",
                                !.pc = IF s.path = "imported" THEN "export"
                                       ELSE "stops"]
             ELSE [s EXCEPT !.pc = "returned", !.results = ResultsOf(mode, s)]
      [] s.pc = "export" ->
             IF Hit(d, StageProb(s, "export"))
             THEN Terminate(mode, s, "seized_export")
             ELSE [s EXCEPT !.pc = "base"]
      [] s.pc = "base" -> [s EXCEPT !.transit_time = d, !.pc = "import"]
      [] s.pc = "import" ->
             IF Hit(d, StageProb(s, "import"))
             THEN Terminate(mode, s, "seized_import")
             ELSE [s EXCEPT !.pc = "stops"]
      [] s.pc = "stops" ->
             [s EXCEPT !.num_stops = Clamp(d),
                       !.stop = 0,
                       !.stolen = FALSE,
                       !.transit_time = IF s.path = "local" THEN 0 ELSE @,
                       !.pc = IF Clamp(d) > 0 THEN "stop" ELSE "last_mile"]
      [] s.pc = "stop" -> [s EXCEPT !.transit_time = @ + d, !.pc = "theft"]
      [] s.pc = "theft" ->
             IF Hit(d, StageProb(s, "warehouse"))
             THEN Terminate(mode, [s EXCEPT !.stop = @ + 1, !.stolen = TRUE],
                            "stolen_warehouse")
             ELSE [s EXCEPT !.stop = @ + 1,
                            !.pc = IF s.stop + 1 < s.num_stops THEN "stop"
                                   ELSE "last_mile"]
      [] s.pc = "last_mile" ->
             IF Hit(d, StageProb(s, "last_mile"))
             THEN Terminate(mode, s, "stolen_last_mile")
             ELSE [s EXCEPT !.pc = "arrival"]
      [] s.pc = "arrival" ->
             LET a == CountArrived(mode, s)
             IN  IF OnTime(s.transit_time)
                 THEN [a EXCEPT !.status = "on_time",
                                !.final_counterfeit_on_time =
                                    IF s.is_counterfeit THEN @ + 1 ELSE @,
                                !.final_legit_on_time =
                                    IF s.is_counterfeit THEN @ ELSE @ + 1,
                                !.pc = "shipment"]
                 ELSE CountMissing(mode, [a EXCEPT !.status = "late_arrival",
                                                   !.pc = "shipment"])
      [] OTHER -> s

\* Both functions are called with the same N and draw the same probabilities.
LockstepCall ==
    /\ modeA = NoRun
    /\ modeB = NoRun
    /\ \E p \in JourneyPaths : \E v \in ProbDraws(ProbNamesOf(p)) :
         /\ modeA' = Entered("A", p, v)
         /\ modeB' = Entered("B", p, v)
    /\ UNCHANGED <<args, pc, path, err, probs, i, shipment, counters, batch,
                   aggregator>>

\* Both consume the next draw of the sequence.
LockstepDraw ==
    /\ modeA # NoRun
    /\ modeA.pc # "returned" \/ modeB.pc # "returned"
    /\ \E d \in DrawsFor(modeA) :
         /\ modeA' = JourneyStep("A", modeA, d)
         /\ modeB' = JourneyStep("B", modeB, d)
    /\ UNCHANGED <<args, pc, path, err, probs, i, shipment, counters, batch,
                   aggregator>>

LockstepInit ==
    /\ variant = "mc"
    /\ N \in NValues
    /\ num_sims = 1
    /\ AtEntry
    /\ modeA = NoRun
    /\ modeB = NoRun

LockstepNext == LockstepCall \/ LockstepDraw

Lockstep == LockstepInit /\ [][LockstepNext]_vars

\* ------------------------------------------------------------------ claims

\* The journey function has just returned; its dict is in imported_res /
\* local_res (simulate_imported_batch's tuple in imported_res).
ReturnedImported == pc = "call_local"
ReturnedLocal == pc = "aggregate"
ReturnedBatch == pc = "b_aggregate"
\* The aggregator has appended this iteration's elements.
Appended == appended # NoRes

StagePositions ==
    {"export", "base", "import", "stops", "clamp", "stop", "last_mile", "arrival"}
SeizedStatuses == {"seized_export", "seized_import"}
LostStatuses == SeizedStatuses \cup {"stolen_warehouse", "stolen_last_mile"}
TerminalStatuses == LostStatuses \cup {"late_arrival", "on_time"}

InvalidConfig == N <= 0 \/ num_sims <= 0

\* C1: for N >= 1, the legit total plus the counterfeit total a journey
\* function returns is N (both per-shipment variants, both paths, and the
\* batch variant).
C1_TotalsPartitionN ==
    N >= 1 =>
      /\ ReturnedImported =>
           imported_res.final_legit_total + imported_res.final_counterfeit_total = N
      /\ ReturnedLocal =>
           local_res.final_legit_total + local_res.final_counterfeit_total = N
      /\ ReturnedBatch =>
           imported_res.legit_import + imported_res.counterfeit_import = N

C1_Witness ==
    /\ ReturnedLocal
    /\ N = 2
    /\ local_res.final_legit_total = 1
    /\ local_res.final_counterfeit_total = 1

\* C2: in the unified-missing variant the on-time counts plus final_missing
\* count the shipments processed: i at the loop head after the i-th shipment,
\* i - 1 while the i-th is in flight, and N in the returned dict (N >= 0).
C2_UnifiedPartition ==
    Unified =>
      /\ pc = "shipment" =>
           final_legit_on_time + final_counterfeit_on_time + final_missing = i
      /\ pc \in StagePositions =>
           final_legit_on_time + final_counterfeit_on_time + final_missing = i - 1
      /\ (ReturnedImported /\ N >= 0) =>
           imported_res.final_legit_on_time + imported_res.final_counterfeit_on_time
             + imported_res.final_missing = N
      /\ (ReturnedLocal /\ N >= 0) =>
           local_res.final_legit_on_time + local_res.final_counterfeit_on_time
             + local_res.final_missing = N

C2_Witness ==
    /\ Unified
    /\ ReturnedImported
    /\ N = 2
    /\ imported_res.final_missing = 1
    /\ imported_res.final_legit_on_time = 1

\* C3: every processed shipment has exactly one terminal status: none while
\* it is in flight, one of the six once it is processed, never replaced by
\* another; the step that sets it increments exactly the one counter of that
\* status (an on-time counter, or final_missing in the unified variant) by 1
\* and no other step of the shipment counts anything; the local path never
\* reaches a seizure status.
C3_ExactlyOneStatus ==
    /\ [](PerShipment =>
            /\ (pc = "shipment" /\ i >= 1) => status \in TerminalStatuses
            /\ pc \in StagePositions => status = "in_transit"
            /\ path = "local" => status \notin SeizedStatuses)
    /\ [][(status \in TerminalStatuses) => (status' \in {"in_transit", "none"})]_vars
    /\ [][LET on_time == (final_legit_on_time' + final_counterfeit_on_time')
                           - (final_legit_on_time + final_counterfeit_on_time)
              missing == final_missing' - final_missing
          IN  IF status = "in_transit" /\ status' \in TerminalStatuses
              THEN /\ on_time = IF status' = "on_time" THEN 1 ELSE 0
                   /\ missing = IF Unified /\ status' # "on_time" THEN 1 ELSE 0
              ELSE status' # "none" => (on_time = 0 /\ missing = 0)]_vars

C3_Witness ==
    /\ pc = "shipment"
    /\ i = 2
    /\ path = "local"
    /\ status = "late_arrival"

\* C4 as claimed: per class, on-time count + missing count = class total, the
\* missing count being the returned dict's final_missing.
C4_PerClassMissing ==
    Unified =>
      /\ ReturnedImported =>
           /\ imported_res.final_legit_on_time + imported_res.final_missing
                = imported_res.final_legit_total
           /\ imported_res.final_counterfeit_on_time + imported_res.final_missing
                = imported_res.final_counterfeit_total
      /\ ReturnedLocal =>
           /\ local_res.final_legit_on_time + local_res.final_missing
                = local_res.final_legit_total
           /\ local_res.final_counterfeit_on_time + local_res.final_missing
                = local_res.final_counterfeit_total

\* The shortfalls of the two classes add up to the one missing count.
ClassShortfalls(res) ==
    /\ 0 <= res.final_legit_on_time
    /\ res.final_legit_on_time <= res.final_legit_total
    /\ 0 <= res.final_counterfeit_on_time
    /\ res.final_counterfeit_on_time <= res.final_counterfeit_total
    /\ res.final_missing =
         (res.final_legit_total - res.final_legit_on_time)
         + (res.final_counterfeit_total - res.final_counterfeit_on_time)

\* C4 (amended): the returned dict has one missing count for both classes; per
\* class 0 <= on-time <= total, and final_missing is the sum over the classes
\* of (total - on-time).
C4_MissingIsSumOfShortfalls ==
    Unified =>
      /\ ReturnedImported => ClassShortfalls(imported_res)
      /\ ReturnedLocal => ClassShortfalls(local_res)

C4_Witness ==
    /\ Unified
    /\ ReturnedImported
    /\ imported_res.final_legit_total = 1
    /\ imported_res.final_legit_on_time = 0
    /\ imported_res.final_counterfeit_total = 1
    /\ imported_res.final_counterfeit_on_time = 1
    /\ imported_res.final_missing = 1

\* C5 as claimed: with N <= 0 or num_sims <= 0 the call fails at once with a
\* configuration error: no journey function is invoked, no probability is
\* drawn, nothing is returned.
C5_FailFast ==
    InvalidConfig =>
      /\ calls = [imported |-> 0, local |-> 0, batch |-> 0]
      /\ probs = NoProbs
      /\ summary = "none"
      /\ pc \in {"loop", "raised"}
      /\ pc = "raised" => err = "ConfigurationError"

\* What the aggregator appended for a class with `total` shipments of which
\* `on_time` arrived on time.
GoodFraction(f, on_time, total) ==
    IF total = 0 THEN f = Zero
    ELSE /\ f = Frac(on_time, total)
         /\ 0 <= on_time
         /\ on_time <= total

\* C6: main_simulation (basic) and batch_simulation append, per class and
\* path, exactly 0 when the class total is 0 and on_time / total in [0,1]
\* otherwise; a ZeroDivisionError comes only from dividing by N = 0.
C6_ZeroTotalFraction ==
    /\ (variant = "mc" /\ Appended) =>
         /\ GoodFraction(appended.imported_legit_arrivals,
                         imported_res.final_legit_on_time,
                         imported_res.final_legit_total)
         /\ GoodFraction(appended.imported_counterfeit_arrivals,
                         imported_res.final_counterfeit_on_time,
                         imported_res.final_counterfeit_total)
         /\ GoodFraction(appended.local_legit_arrivals,
                         local_res.final_legit_on_time,
                         local_res.final_legit_total)
         /\ GoodFraction(appended.local_counterfeit_arrivals,
                         local_res.final_counterfeit_on_time,
                         local_res.final_counterfeit_total)
    /\ (variant = "batch" /\ Appended) =>
         /\ GoodFraction(appended.imported_legit_arrivals,
                         imported_res.final_legit, imported_res.legit_import)
         /\ GoodFraction(appended.imported_counterfeit_arrivals,
                         imported_res.final_counterfeit,
                         imported_res.counterfeit_import)
    /\ (variant \in {"mc", "batch"} /\ err = "ZeroDivisionError") => N = 0

C6_Witness ==
    /\ variant = "mc"
    /\ Appended
    /\ N = 2
    /\ imported_res.final_counterfeit_total = 0
    /\ imported_res.final_legit_on_time = 1
    /\ appended.imported_counterfeit_arrivals = Zero
    /\ appended.imported_legit_arrivals = Frac(1, 2)

\* C7: for N >= 1 every row main_simulation (regression) appends has
\* missing_frac = final_missing / N with 0 <= final_missing <= N.
C7_MissingFracInUnitInterval ==
    (Unified /\ Appended /\ N >= 1) =>
      \A row \in {appended.imported_data, appended.local_data} :
        /\ row.missing_frac.den = N
        /\ 0 <= row.missing_frac.num
        /\ row.missing_frac.num <= N

C7_Witness ==
    /\ Unified
    /\ Appended
    /\ N = 2
    /\ appended.imported_data.missing_frac = Frac(2, 2)
    /\ appended.local_data.missing_frac = Frac(0, 2)

Max0(x) == IF x < 0 THEN 0 ELSE x
MaxStops == CHOOSE m \in {Clamp(d) : d \in PoissonDraws} :
                \A d \in PoissonDraws : Clamp(d) <= m
ShipmentWeight == 8 + MaxStops
StageRank ==
    CASE pc = "export" -> 7 + MaxStops
      [] pc = "base" -> 6 + MaxStops
      [] pc = "import" -> 5 + MaxStops
      [] pc = "stops" -> 4 + MaxStops
      [] pc = "clamp" -> 3 + MaxStops
      [] pc = "stop" -> 2 + Max0(num_stops - stop)
      [] pc = "last_mile" -> 2
      [] pc = "arrival" -> 1
      [] OTHER -> 0
JourneyRank == Max0(N - i) * ShipmentWeight + StageRank
JourneyWeight == Max0(N) * ShipmentWeight + 1
IterationRank ==
    CASE pc \in StagePositions \cup {"shipment"} ->
             IF path = "imported" THEN JourneyWeight + 3 + JourneyRank
             ELSE 2 + JourneyRank
      [] pc = "call_local" -> JourneyWeight + 2
      [] pc = "aggregate" -> 1
      [] pc = "b_export" -> 7
      [] pc = "b_import" -> 6
      [] pc = "b_transit" -> 5
      [] pc = "b_warehouse" -> 4
      [] pc = "b_last_mile" -> 3
      [] pc = "b_return" -> 2
      [] pc = "b_aggregate" -> 1
      [] OTHER -> 0
IterationWeight == 2 * JourneyWeight + 8
Rank ==
    IF pc \in {"done", "raised"} THEN 0
    ELSE Max0(num_sims - sim) * IterationWeight + IterationRank + 1

C11_TheftEndsStops ==
    /\ [](status = "stolen_warehouse" =>
            /\ pc = "shipment"
            /\ stolen
            /\ 1 <= stop
            /\ stop <= num_stops)
    /\ [][(status # "stolen_warehouse" /\ status' = "stolen_warehouse") =>
            /\ pc = "stop"
            /\ status = "in_transit"
            /\ ~stolen
            /\ stop' = stop + 1
            /\ final_missing' = final_missing + (IF Unified THEN 1 ELSE 0)
            /\ arrived_shipments' = arrived_shipments
            /\ total_transit_time' = total_transit_time
            /\ final_legit_on_time' = final_legit_on_time
            /\ final_counterfeit_on_time' = final_counterfeit_on_time]_vars
    /\ [][(status = "stolen_warehouse") =>
            \/ UNCHANGED vars
            \/ /\ status' = "in_transit"
               /\ i' = i + 1
               /\ stop' = 0
               /\ final_missing' = final_missing
               /\ arrived_shipments' = arrived_shipments
            \/ /\ status' = "none"
               /\ pc' \in {"call_local", "aggregate"}
               /\ i = N]_vars

C11_Witness ==
    /\ Unified
    /\ path = "local"
    /\ status = "stolen_warehouse"
    /\ i = 1
    /\ num_stops = 2
    /\ stop = 1
    /\ final_missing = 1

\* The journey function returns in this step.
Returning == pc = "shipment" /\ pc' \in {"call_local", "aggregate"}
\* The dict it returns.
Returned == IF path = "imported" THEN imported_res' ELSE local_res'

\* C12: in the unified-missing variant arrived_shipments counts the shipments
\* that reached the arrival check: it grows by 1 exactly in the step that ends
\* a shipment on time or late; with i shipments begun and none in flight it is
\* the on-time counts plus the late arrivals, and i minus it is the number of
\* seized or stolen shipments; at return (N >= 0) the same holds with N for i,
\* and the returned avg_transit_time is total_transit_time / arrived_shipments,
\* or 0.0 when arrived_shipments is 0.
C12_ArrivedDenominator ==
    /\ []((Unified /\ pc = "shipment") =>
            /\ arrived_shipments =
                 final_legit_on_time + final_counterfeit_on_time + late_arrivals
            /\ i - arrived_shipments = lost_shipments)
    /\ [][(Unified /\ status' # "none") =>
            arrived_shipments' - arrived_shipments =
              IF status = "in_transit" /\ status' \in {"on_time", "late_arrival"}
              THEN 1 ELSE 0]_vars
    /\ [][(Unified /\ Returning /\ N >= 0) =>
            /\ arrived_shipments =
                 final_legit_on_time + final_counterfeit_on_time + late_arrivals
            /\ N - arrived_shipments = lost_shipments
            /\ Returned.avg_transit_time =
                 IF arrived_shipments = 0 THEN Zero
                 ELSE Frac(total_transit_time, arrived_shipments)]_vars

C12_Witness ==
    /\ Unified
    /\ path = "imported"
    /\ pc = "shipment"
    /\ N = 2
    /\ i = 2
    /\ arrived_shipments = 1
    /\ late_arrivals = 1
    /\ lost_shipments = 1

\* A run in which nothing arrived has returned avg_transit_time = 0.0.
C12_WitnessNoArrival ==
    /\ Unified
    /\ ReturnedImported
    /\ N = 2
    /\ imported_res.final_missing = 2
    /\ imported_res.avg_transit_time = Zero

\* Positions inside the shipment loop of a journey function.
LoopPositions == StagePositions \cup {"shipment"}
\* The stage probabilities of the journey running.
PathProbNames == IF path = "imported" THEN ImportedProbNames ELSE LocalProbNames

\* C13: in the per-shipment variants all stage probabilities of the run are
\* drawn when the loop is reached and no step inside the loop changes them;
\* they change only when a journey function is entered (a fresh set) or
\* returns; every probability the returned dict reports is the one drawn
\* (all of them in the unified-missing variant and on the basic local path;
\* the basic imported path reports none).
C13_ProbsFixedPerRun ==
    /\ []((PerShipment /\ pc \in LoopPositions) => DOMAIN probs = PathProbNames)
    /\ [][(PerShipment /\ pc \in LoopPositions /\ pc' \in LoopPositions) =>
            probs' = probs]_vars
    /\ [][(PerShipment /\ probs' # probs) =>
            \/ pc \in {"loop", "call_local"} /\ pc' = "shipment" /\ i' = 0
            \/ Returning /\ probs' = NoProbs]_vars
    /\ [][(PerShipment /\ Returning) =>
            /\ \A q \in DOMAIN Returned \cap DOMAIN probs : Returned[q] = probs[q]
            /\ (Unified \/ path = "local") => PathProbNames \subseteq DOMAIN Returned
            /\ (~Unified /\ path = "imported") =>
                 DOMAIN Returned \cap ImportedProbNames = {}]_vars

C13_Witness ==
    /\ Unified
    /\ ReturnedLocal
    /\ N = 2
    /\ imported_res["p_counterfeit"] = 1
    /\ imported_res["p_last_mile_theft"] = 1
    /\ local_res["p_counterfeit_local"] = 2
    /\ local_res["p_last_mile_theft_local"] = 2
    /\ local_res.final_counterfeit_total = 2

\* The locals the two modes share, and the counters only mode B keeps.
SharedLocals ==
    {"pc", "path", "probs", "i", "is_counterfeit", "transit_time", "num_stops",
     "stop", "stolen", "status", "legit_total", "counterfeit_total",
     "final_legit_on_time", "final_counterfeit_on_time"}
SharedResults ==
    {"final_legit_on_time", "final_counterfeit_on_time", "final_legit_total",
     "final_counterfeit_total"}
Shared(s) == [k \in SharedLocals |-> s[k]]
\* Mode B's locals with its extra counters set to other values.
OtherBookkeeping(s) ==
    {[s EXCEPT !.final_missing = m, !.arrived_shipments = a,
               !.total_transit_time = t] :
        m \in 0 .. MaxN, a \in 0 .. MaxN, t \in {0, 7}}

LegitChain ==
    <<"legit_import", "remaining_legit_export", "remaining_legit_import",
      "legit_on_time_import", "remaining_legit_warehouse", "final_legit">>
CounterfeitChain ==
    <<"counterfeit_import", "remaining_counterfeit_export",
      "remaining_counterfeit_import", "counterf_on_time_import",
      "remaining_counterfeit_warehouse", "final_counterfeit">>
\* Every count assigned so far is >= 0 and <= the count before it.
NonIncreasing(chain) ==
    \A j \in 1 .. Len(chain) :
       chain[j] \in DOMAIN batch =>
         /\ 0 <= batch[chain[j]]
         /\ j > 1 => (/\ chain[j - 1] \in DOMAIN batch
                      /\ batch[chain[j]] <= batch[chain[j - 1]])

\* C15: in simulate_imported_batch, per class, every count is >= 0 and none
\* exceeds the count of the stage before it (class total, after export
\* seizure, after import seizure, on time, after warehouse theft, final); the
\* class totals are <= N; the returned survivors satisfy
\* 0 <= final_legit <= legit_import and 0 <= final_counterfeit <=
\* counterfeit_import.
C15_BatchCountsNonIncreasing ==
    /\ variant = "batch" =>
         /\ NonIncreasing(LegitChain)
         /\ NonIncreasing(CounterfeitChain)
         /\ "legit_import" \in DOMAIN batch =>
              (batch.legit_import <= N /\ batch.counterfeit_import <= N)
    /\ ReturnedBatch =>
         /\ 0 <= imported_res.final_legit
         /\ imported_res.final_legit <= imported_res.legit_import
         /\ 0 <= imported_res.final_counterfeit
         /\ imported_res.final_counterfeit <= imported_res.counterfeit_import

C15_Witness ==
    /\ pc = "b_return"
    /\ N = 2
    /\ batch.legit_import = 2
    /\ batch.remaining_legit_export = 2
    /\ batch.remaining_legit_import = 1
    /\ batch.legit_on_time_import = 1
    /\ batch.remaining_legit_warehouse = 0
    /\ batch.final_legit = 0

=============================================================================
